---- MODULE Spec2Model ----
(***************************************************************************)
(* Flash-sale engine: the gateway (/buy admission, rate limiter, circuit   *)
(* breaker around the Kafka producer) and the processor (atomic inventory  *)
(* scripts, simulated payment, refund, dead-letter queue), with Redis and  *)
(* Kafka as shared state.  Every Redis command, Lua script run, breaker    *)
(* lock section and Kafka publish is one atomic step; the goroutines that  *)
(* issue them interleave freely.                                           *)
(***************************************************************************)
EXTENDS Integers, Sequences, FiniteSets, TLC

\* ---------------------------------------------------------------- bounds
NumWorkers == 2        \* parallel processOrder executions (sharded consumers)
MaxOrders == 3         \* messages on the orders topic of the processor runs
MaxStock == 2          \* largest seeded inventory value

NumHandlers == 2       \* /buy requests handled at the same time
MaxBuys == 3           \* /buy requests received in a gateway run
maxRequests == 2       \* RATE_LIMIT_MAX_REQUESTS as configured in the runs
failureThreshold == 2  \* CIRCUIT_BREAKER_FAILURE_THRESHOLD as configured in the runs
successThreshold == 2  \* CIRCUIT_BREAKER_SUCCESS_THRESHOLD as configured in the runs
MaxBreakerBuys == 4    \* /buy requests received in a breaker run
MaxProbeBuys == 5      \* /buy requests received in a run through an outage
MaxGenerations == 4    \* breaker generations after which no further expiry is awaited
NumCallers == 3        \* goroutines that call into dlq_metrics.go
MaxCalls == 2          \* calls each of them makes in a metrics run

Workers == 1..NumWorkers
Handlers == 1..NumHandlers
Users == {"u1", "u2"}
RequestIDs == {"r1", "r2"}
Items == {"101"}
Reasons == {"Invalid Order Format", "Redis Timeout", "Redis Failure", "Payment Timeout"}
Callers == 1..NumCallers

\* What the client of a Redis script run can see, and whether the server ran
\* the script: a reply; an error before the script ran; a deadline that
\* expired before the script ran; a deadline that expired after it ran.
ScriptOutcomes == {"ok", "error", "timeout", "timeout_applied"}

VARIABLES
    inventory,     \* Redis inventory:<item_id>: a function on the existing keys
    orders,        \* Kafka topic orders: the sequence of messages
    ordersDlq,     \* Kafka topic orders-dlq: the sequence of records
    offset,        \* number of messages of orders already handed to processOrder
    wk,            \* per worker: position in processOrder and its locals
    outcome,       \* per message of orders: the terminal event processOrder logged
    dlqMetrics,    \* dlqMetrics.totalFailures and .failuresByReason
    mu,            \* dlqMetrics.mu, the sync.RWMutex: the goroutine that holds the
                   \* write lock (0 when none does) and those that hold read locks
    callers,       \* per goroutine that calls into dlq_metrics.go: the call it
                   \* is in, where it is in it, and what GetDLQMetrics returned to it
    initialStock,  \* the seeded inventory (never changes)
    proc,          \* the processor's main(): consumer, DLQ producer and store
                   \* client, where main is, the consuming loop, the drain
    idem,          \* Redis idempotency:<request_id>: the set of existing keys
    idemExpired,   \* the request ids whose idempotency key has expired by TTL
    orderStatus,   \* Redis order_status:<request_id>: a function on the existing keys
    ratelimit,     \* Redis ratelimit:<user_id>: existing keys -> [count, ttl]
    cb,            \* the gobreaker state: state, generation, counts, expiry passed,
                   \* the last change reported to OnStateChange, and the time
                   \* (in seconds) after which the present generation expires
    failureCount,  \* CircuitBreaker.failureCount
    cbGauge,       \* metrics.CircuitBreakerState
    hd,            \* per handler goroutine: position in handleBuy and its locals
    nBuys,         \* number of /buy requests received
    hist,          \* record of the answers given
    verdicts,      \* per user: the limiter's verdicts in the current window
    env            \* the configuration and the environment of the run (never changes)

storeVars == <<idem, idemExpired, orderStatus, ratelimit>>
gwVars == <<storeVars, cb, failureCount, cbGauge, hd, nBuys, hist, verdicts>>
lockVars == <<mu, callers>>
procVars == <<inventory, ordersDlq, offset, wk, outcome, dlqMetrics, lockVars, initialStock, proc,
              env>>
vars == <<orders, procVars, gwVars>>

\* ------------------------------------------------- Redis Lua scripts
Decr(inv, key) == [inv EXCEPT ![key] = @ - 1]

IncrBy(inv, key, n) ==
    IF key \in DOMAIN inv THEN [inv EXCEPT ![key] = @ + n]
    ELSE (key :> n) @@ inv

\* The reserve script without its compensating INCR on the sold-out branch.
CheckInventoryNoCompensation(inv, key) ==
    IF key \notin DOMAIN inv
    THEN [inv |-> inv, reply |-> <<0, -1, "NOT_INITIALIZED">>]
    ELSE LET dec == Decr(inv, key)
         IN  IF dec[key] < 0
             THEN [inv |-> dec, reply |-> <<0, dec[key], "SOLD_OUT">>]
             ELSE [inv |-> dec, reply |-> <<1, dec[key], "SUCCESS">>]

\* The reserve script with the sold-out test off by one (current_stock < -1).
CheckInventoryOffByOne(inv, key) ==
    IF key \notin DOMAIN inv
    THEN [inv |-> inv, reply |-> <<0, -1, "NOT_INITIALIZED">>]
    ELSE LET dec == Decr(inv, key)
         IN  IF dec[key] < -1
             THEN [inv |-> IncrBy(dec, key, 1), reply |-> <<0, dec[key], "SOLD_OUT">>]
             ELSE [inv |-> dec, reply |-> <<1, dec[key], "SUCCESS">>]

\* The reserve script without its EXISTS test: DECR creates a missing key.
CheckInventoryNoExistsTest(inv, key) ==
    LET dec == IncrBy(inv, key, -1)
        current_stock == dec[key]
    IN  IF current_stock < 0
        THEN [inv |-> IncrBy(dec, key, 1), reply |-> <<0, current_stock, "SOLD_OUT">>]
        ELSE [inv |-> dec, reply |-> <<1, current_stock, "SUCCESS">>]

\* luaCheckInventoryScript: the store after the run and the reply
\* {success, stock, reason}.
CheckInventoryScript(inv, key) ==
    IF key \notin DOMAIN inv
    THEN [inv |-> inv, reply |-> <<0, -1, "NOT_INITIALIZED">>]
    ELSE LET dec == Decr(inv, key)
             current_stock == dec[key]
         IN  IF current_stock < 0
             THEN [inv |-> IncrBy(dec, key, 1),
                   reply |-> <<0, current_stock, "SOLD_OUT">>]
             ELSE [inv |-> dec, reply |-> <<1, current_stock, "SUCCESS">>]

\* A refund script that gives back one unit more than it is asked to.
RefundInventoryOneMore(inv, key, refund_amount) ==
    IF refund_amount <= 0
    THEN [inv |-> inv, reply |-> <<0, 0>>]
    ELSE LET new == IncrBy(inv, key, refund_amount + 1)
         IN  [inv |-> new, reply |-> <<1, new[key]>>]

\* luaRefundInventoryScript: the store after the run and the reply
\* {success, new_stock}.
RefundInventoryScript(inv, key, refund_amount) ==
    IF refund_amount <= 0
    THEN [inv |-> inv, reply |-> <<0, 0>>]
    ELSE LET new == IncrBy(inv, key, refund_amount)
         IN  [inv |-> new, reply |-> <<1, new[key]>>]

\* ------------------------------------------------- dead-letter queue
\* make(map[string]int64): a reason without an entry counts 0.
NewMap == [r \in Reasons |-> 0]

\* A goroutine that is in no call of dlq_metrics.go and holds no result.
NoCall ==
    [pc |-> "idle", op |-> "none", reason |-> "none", calls |-> 0,
     returned |-> FALSE, totalFailures |-> 0, failuresByReason |-> [shared |-> FALSE, m |-> NewMap]]

\* var dlqMetrics = &DLQMetrics{failuresByReason: make(map[string]int64)}
InitDLQMetrics ==
    /\ dlqMetrics = [totalFailures |-> 0, failuresByReason |-> NewMap]
    /\ mu = [writer |-> 0, readers |-> {}]
    /\ callers = [c \in Callers |-> NoCall]

\* RecordFailure(reason)
RecordFailure(m, reason) ==
    [totalFailures |-> m.totalFailures + 1,
     failuresByReason |-> [m.failuresByReason EXCEPT ![reason] = @ + 1]]

\* ------------------------------------------------- DLQ metrics under the lock
\* The calls of dlq_metrics.go statement by statement, for the runs in which
\* goroutines call them at the same time.  (In the processor runs moveToDLQ's
\* RecordFailure is one step.)  lastFailureTime and the age computed from it
\* are clock readings and are left out.

\* What a metrics call leaves alone.
notMetrics ==
    <<inventory, orders, ordersDlq, offset, wk, outcome, initialStock, proc, env, idem,
      idemExpired, orderStatus, ratelimit, cb, failureCount, cbGauge, hd, nBuys, hist, verdicts>>

\* The map a reference held by goroutine c leads to: the map dlqMetrics
\* holds at present, or a map of the goroutine's own.
MapOf(ref) == IF ref.shared THEN dlqMetrics.failuresByReason ELSE ref.m

\* A GetDLQMetrics that hands out dlqMetrics.failuresByReason itself.
ReasonCopyShares(m) == [shared |-> TRUE, m |-> NewMap]

\* reasonCopy := make(map[string]int64); for k, v := range ... { reasonCopy[k] = v }
ReasonCopy(m) == [shared |-> FALSE, m |-> m]

\* A goroutine enters one of the three functions; the runs record two of the
\* reasons.
Call(c) ==
    /\ callers[c].pc = "idle"
    /\ callers[c].calls < MaxCalls
    /\ \E op \in {"RecordFailure", "GetDLQMetrics", "ResetDLQMetrics"},
          reason \in {"Redis Timeout", "Payment Timeout"} :
         callers' = [callers EXCEPT ![c].pc = "lock", ![c].op = op,
                                    ![c].reason = IF op = "RecordFailure" THEN reason ELSE "none",
                                    ![c].calls = @ + 1]
    /\ UNCHANGED <<dlqMetrics, mu, notMetrics>>

\* dlqMetrics.mu.Lock() of RecordFailure and ResetDLQMetrics: waits until no
\* goroutine holds the lock in either mode.
Lock(c) ==
    /\ callers[c].pc = "lock"
    /\ callers[c].op \in {"RecordFailure", "ResetDLQMetrics"}
    /\ mu.writer = 0 /\ mu.readers = {}
    /\ mu' = [mu EXCEPT !.writer = c]
    /\ callers' = [callers EXCEPT ![c].pc = "total"]
    /\ UNCHANGED <<dlqMetrics, notMetrics>>

\* dlqMetrics.mu.RLock() of GetDLQMetrics: waits until no goroutine holds the
\* write lock.
RLock(c) ==
    /\ callers[c].pc = "lock"
    /\ callers[c].op = "GetDLQMetrics"
    /\ mu.writer = 0
    /\ mu' = [mu EXCEPT !.readers = @ \cup {c}]
    /\ callers' = [callers EXCEPT ![c].pc = "copy"]
    /\ UNCHANGED <<dlqMetrics, notMetrics>>

\* dlqMetrics.totalFailures++ of RecordFailure, totalFailures = 0 of
\* ResetDLQMetrics.
WriteTotal(c) ==
    /\ callers[c].pc = "total"
    /\ dlqMetrics' = [dlqMetrics EXCEPT !.totalFailures =
                         IF callers[c].op = "RecordFailure" THEN @ + 1 ELSE 0]
    /\ callers' = [callers EXCEPT ![c].pc = "reasons"]
    /\ UNCHANGED <<mu, notMetrics>>

\* dlqMetrics.failuresByReason[reason]++ of RecordFailure;
\* failuresByReason = make(map[string]int64) of ResetDLQMetrics, after which
\* a reference to the former map leads to a map dlqMetrics no longer holds.
WriteReasons(c) ==
    /\ callers[c].pc = "reasons"
    /\ IF callers[c].op = "RecordFailure"
       THEN /\ dlqMetrics' = [dlqMetrics EXCEPT !.failuresByReason[callers[c].reason] = @ + 1]
            /\ callers' = [callers EXCEPT ![c].pc = "unlock"]
       ELSE /\ dlqMetrics' = [dlqMetrics EXCEPT !.failuresByReason = NewMap]
            /\ callers' = [d \in Callers |->
                    LET held == [callers[d] EXCEPT !.failuresByReason =
                                    [shared |-> FALSE, m |-> MapOf(callers[d].failuresByReason)]]
                    IN  IF d = c THEN [held EXCEPT !.pc = "unlock"] ELSE held]
    /\ UNCHANGED <<mu, notMetrics>>

\* defer dlqMetrics.mu.Unlock()
Unlock(c) ==
    /\ callers[c].pc = "unlock"
    /\ mu' = [mu EXCEPT !.writer = 0]
    /\ callers' = [callers EXCEPT ![c].pc = "idle"]
    /\ UNCHANGED <<dlqMetrics, notMetrics>>

\* The copy loop of GetDLQMetrics.
CopyReasons(c) ==
    /\ callers[c].pc = "copy"
    /\ callers' = [callers EXCEPT ![c].pc = "return", ![c].returned = FALSE,
                                  ![c].failuresByReason = ReasonCopy(dlqMetrics.failuresByReason)]
    /\ UNCHANGED <<dlqMetrics, mu, notMetrics>>

\* return dlqMetrics.totalFailures, reasonCopy, ... and the deferred RUnlock.
Return(c) ==
    /\ callers[c].pc = "return"
    /\ mu' = [mu EXCEPT !.readers = @ \ {c}]
    /\ callers' = [callers EXCEPT ![c].pc = "idle", ![c].returned = TRUE,
                                  ![c].totalFailures = dlqMetrics.totalFailures]
    /\ UNCHANGED <<dlqMetrics, notMetrics>>

\* An extractCorrelationID that ignores the header and makes up an id.
extractCorrelationIDAlwaysNew(msg) == "proc"

\* extractCorrelationID: the correlation_id header of the message, or an id
\* made up by the processor when the message has none.
extractCorrelationID(msg) ==
    IF "corr" \in DOMAIN msg THEN msg.corr ELSE "proc"

\* moveToDLQ: RecordFailure, then the publish to orders-dlq, which can fail
\* (sent = FALSE) and is then only logged.
moveToDLQ(msg, reason, sent) ==
    /\ dlqMetrics' = RecordFailure(dlqMetrics, reason)
    /\ ordersDlq' = IF sent
                    THEN Append(ordersDlq, [value |-> msg, error |-> reason,
                                            correlation_id |-> extractCorrelationID(msg)])
                    ELSE ordersDlq

\* The header keys of a record moveToDLQ publishes.
DlqHeaderKeys == {"error", "correlation_id", "timestamp"}

\* ------------------------------------------------- processor
Idle == [pc |-> "idle", m |-> 0]

\* The processor once main() has set up its clients and started the loop
\* over partitionConsumer.Messages().
Running ==
    [consumer |-> "open", main |-> "select", producer |-> "open", redis |-> "open",
     loop |-> "running", drain |-> "none"]

\* What a script run can come to: on a closed store client only an error.
ScriptRuns == IF proc.redis = "closed" THEN {"error"} ELSE ScriptOutcomes

\* Whether producer.SendMessage to orders-dlq succeeds: never on a closed producer.
DlqSends == IF proc.producer = "closed" THEN {FALSE} ELSE BOOLEAN

\* A loop that hands a message to the reserve step whether it parses or not.
ConsumeIgnoresParseFailure(w) ==
    /\ proc.consumer = "open"
    /\ proc.loop = "running"
    /\ wk[w].pc = "idle"
    /\ offset < Len(orders)
    /\ offset' = offset + 1
    /\ wk' = [wk EXCEPT ![w] = [pc |-> "reserve", m |-> offset + 1]]
    /\ UNCHANGED <<outcome, dlqMetrics, ordersDlq>>
    /\ UNCHANGED <<inventory, orders, initialStock, proc, env, lockVars, gwVars>>

\* The consumer loop hands the next message to processOrder, which unmarshals
\* it; a payload that does not parse is dead-lettered at once.
Consume(w) ==
    /\ proc.consumer = "open"
    /\ proc.loop = "running"
    /\ wk[w].pc = "idle"
    /\ offset < Len(orders)
    /\ offset' = offset + 1
    /\ LET m == offset + 1
           msg == orders[m]
       IN  IF ~msg.parses
           THEN /\ \E sent \in DlqSends : moveToDLQ(msg, "Invalid Order Format", sent)
                /\ outcome' = (m :> "order_unmarshal_failed") @@ outcome
                /\ UNCHANGED wk
           ELSE /\ wk' = [wk EXCEPT ![w] = [pc |-> "reserve", m |-> m]]
                /\ UNCHANGED <<outcome, dlqMetrics, ordersDlq>>
    /\ UNCHANGED <<inventory, orders, initialStock, proc, env, lockVars, gwVars>>

\* checkInventoryScript.Run under the 5 s deadline, and the branch on its result.
Reserve(w) ==
    /\ proc.main # "exited"
    /\ wk[w].pc = "reserve"
    /\ LET m == wk[w].m
           msg == orders[m]
           run == CheckInventoryScript(inventory, msg.item)
       IN  \E o \in ScriptRuns :
             /\ inventory' = IF o \in {"ok", "timeout_applied"} THEN run.inv ELSE inventory
             /\ IF o # "ok"
                THEN /\ \E sent \in DlqSends :
                          moveToDLQ(msg, IF o = "error" THEN "Redis Failure" ELSE "Redis Timeout", sent)
                     /\ outcome' = (m :> "reserve_failed") @@ outcome
                     /\ wk' = [wk EXCEPT ![w] = Idle]
                ELSE IF run.reply[1] = 0
                THEN /\ outcome' = (m :> "order_sold_out") @@ outcome
                     /\ wk' = [wk EXCEPT ![w] = Idle]
                     /\ UNCHANGED <<dlqMetrics, ordersDlq>>
                ELSE /\ wk' = [wk EXCEPT ![w].pc = "payment"]
                     /\ UNCHANGED <<outcome, dlqMetrics, ordersDlq>>
    /\ UNCHANGED <<orders, offset, initialStock, proc, env, lockVars, gwVars>>

\* The simulated payment: it fails when time.Now().Unix()%10 == 0.
Payment(w) ==
    /\ proc.main # "exited"
    /\ wk[w].pc = "payment"
    /\ \E timeout \in BOOLEAN :
         IF timeout
         THEN /\ wk' = [wk EXCEPT ![w].pc = "refund"]
              /\ UNCHANGED outcome
         ELSE /\ outcome' = (wk[w].m :> "order_processed_success") @@ outcome
              /\ wk' = [wk EXCEPT ![w] = Idle]
    /\ UNCHANGED <<inventory, orders, ordersDlq, offset, dlqMetrics, initialStock, proc, env, lockVars, gwVars>>

\* refundScript.Run(..., 1) under the 5 s deadline; whatever it returns is
\* logged, and the message is dead-lettered.
Refund(w) ==
    /\ proc.main # "exited"
    /\ wk[w].pc = "refund"
    /\ LET m == wk[w].m
           msg == orders[m]
           run == RefundInventoryScript(inventory, msg.item, 1)
       IN  /\ \E o \in ScriptRuns :
                inventory' = IF o \in {"ok", "timeout_applied"} THEN run.inv ELSE inventory
           /\ \E sent \in DlqSends : moveToDLQ(msg, "Payment Timeout", sent)
           /\ outcome' = (m :> "payment_timeout") @@ outcome
           /\ wk' = [wk EXCEPT ![w] = Idle]
    /\ UNCHANGED <<orders, offset, initialStock, proc, env, lockVars, gwVars>>

\* ------------------------------------------------- environment of a run
RedisCommands == {"INCR", "EXPIRE", "GET", "SETNX", "SET", "DEL", "PING"}

\* The publish outcomes: appended and acknowledged; not appended, an error;
\* appended, but the acknowledgement was lost and the producer reports an error.
SendOutcomes == {"ok", "fail", "ack_lost"}

\* Whether a Redis command of the gateway succeeds: it can fail (an error, or
\* the request's deadline) in the runs whose environment says so.
Replies(cmd) == IF cmd \in env.redisFaults THEN BOOLEAN ELSE {TRUE}

\* ------------------------------------------------- circuit breaker
\* gobreaker.State.String()
StateString(state) ==
    CASE state = "StateClosed" -> "closed"
      [] state = "StateHalfOpen" -> "half-open"
      [] state = "StateOpen" -> "open"

ZeroCounts == [Requests |-> 0, ConsecutiveSuccesses |-> 0, ConsecutiveFailures |-> 0]

\* A ReadyToTrip that waits for one failure more than the threshold.
ReadyToTripOneMore(counts) == counts.ConsecutiveFailures > failureThreshold

\* Settings.ReadyToTrip
ReadyToTrip(counts) == counts.ConsecutiveFailures >= failureThreshold

\* Settings.Interval and Settings.Timeout, and CIRCUIT_BREAKER_MAX_TIMEOUT, in
\* seconds (the defaults).
Interval == 60
baseTimeout == 30
maxTimeout == 300

RECURSIVE Pow2(_)
Pow2(n) == IF n = 0 THEN 1 ELSE 2 * Pow2(n - 1)

Min(a, b) == IF a < b THEN a ELSE b

\* CircuitBreaker.GetTimeout for a value of failureCount.
GetTimeout(failures) ==
    LET timeout == baseTimeout * Pow2(Min(failures, 10))
    IN  IF timeout > maxTimeout THEN maxTimeout ELSE timeout

\* A new generation clears the counts and restarts the expiry: the interval
\* in Closed, the timeout in Open, none in HalfOpen.
toNewGeneration(b) ==
    [b EXCEPT !.generation = @ + 1, !.counts = ZeroCounts, !.expired = FALSE,
              !.wait = CASE b.state = "StateClosed" -> Interval
                         [] b.state = "StateOpen" -> baseTimeout
                         [] OTHER -> 0]

\* A change of state starts a new generation and is reported to
\* OnStateChange(name, from, to).
setState(b, state) ==
    IF b.state = state THEN b
    ELSE toNewGeneration([b EXCEPT !.state = state, !.changed = <<b.state, state>>])

\* A breaker whose Open state never gives way to HalfOpen.
currentStateStaysOpen(b) ==
    IF b.expired /\ b.state = "StateClosed" THEN toNewGeneration(b) ELSE b

\* The state as of now: an expired Closed interval starts a new generation, an
\* expired Open timeout moves to HalfOpen.
currentState(b) ==
    IF b.expired /\ b.state = "StateClosed" THEN toNewGeneration(b)
    ELSE IF b.expired /\ b.state = "StateOpen" THEN setState(b, "StateHalfOpen")
    ELSE b

\* A breaker whose Execute lets a call through in every state.
beforeRequestNoReject(b) ==
    LET c == currentState(b)
    IN  [cb |-> [c EXCEPT !.counts.Requests = @ + 1], generation |-> c.generation,
         err |-> "nil"]

\* An Execute that lets one call more than MaxRequests through in HalfOpen.
beforeRequestOneMoreProbe(b) ==
    LET c == currentState(b)
    IN  IF c.state = "StateOpen"
        THEN [cb |-> c, generation |-> c.generation, err |-> "ErrOpenState"]
        ELSE IF c.state = "StateHalfOpen" /\ c.counts.Requests > successThreshold
        THEN [cb |-> c, generation |-> c.generation, err |-> "ErrTooManyRequests"]
        ELSE [cb |-> [c EXCEPT !.counts.Requests = @ + 1],
              generation |-> c.generation, err |-> "nil"]

\* Execute's admission: the breaker after it, the generation, the error.
beforeRequest(b) ==
    LET c == currentState(b)
    IN  IF c.state = "StateOpen"
        THEN [cb |-> c, generation |-> c.generation, err |-> "ErrOpenState"]
        ELSE IF c.state = "StateHalfOpen" /\ c.counts.Requests >= successThreshold
        THEN [cb |-> c, generation |-> c.generation, err |-> "ErrTooManyRequests"]
        ELSE [cb |-> [c EXCEPT !.counts.Requests = @ + 1],
              generation |-> c.generation, err |-> "nil"]

\* An onSuccess that closes a half-open breaker on the first success.
onSuccessClosesAtOnce(c) ==
    LET counted == [c EXCEPT !.counts.ConsecutiveSuccesses = @ + 1,
                             !.counts.ConsecutiveFailures = 0]
    IN  IF c.state = "StateHalfOpen" THEN setState(counted, "StateClosed") ELSE counted

onSuccess(c) ==
    LET counted == [c EXCEPT !.counts.ConsecutiveSuccesses = @ + 1,
                             !.counts.ConsecutiveFailures = 0]
    IN  IF c.state = "StateClosed" THEN counted
        ELSE IF c.state = "StateHalfOpen"
        THEN IF counted.counts.ConsecutiveSuccesses >= successThreshold
             THEN setState(counted, "StateClosed")
             ELSE counted
        ELSE c

onFailure(c) ==
    LET counted == [c EXCEPT !.counts.ConsecutiveFailures = @ + 1,
                             !.counts.ConsecutiveSuccesses = 0]
    IN  IF c.state = "StateClosed"
        THEN IF ReadyToTrip(counted.counts) THEN setState(counted, "StateOpen") ELSE counted
        ELSE IF c.state = "StateHalfOpen" THEN setState(c, "StateOpen")
        ELSE c

\* Execute's bookkeeping after the call: ignored when the generation changed.
afterRequest(b, before, success) ==
    LET c == currentState(b)
    IN  IF c.generation # before THEN c
        ELSE IF success THEN onSuccess(c) ELSE onFailure(c)

\* The gauge value handleBuy computes from the state's name.
GaugeValue(name) ==
    IF name = "Open" THEN 1 ELSE IF name = "HalfOpen" THEN 2 ELSE 0

\* The expiry the breaker is waiting for passes.
BreakerTimerExpires ==
    /\ cb.generation < MaxGenerations
    /\ \/ cb.state = "StateClosed" /\ "interval" \in env.timers
       \/ cb.state = "StateOpen" /\ "breaker" \in env.timers
    /\ ~cb.expired
    /\ cb' = [cb EXCEPT !.expired = TRUE]
    /\ UNCHANGED <<orders, procVars, storeVars, failureCount, cbGauge, hd, nBuys, hist, verdicts>>

\* ------------------------------------------------- Redis commands of the gateway
\* A SETNX that reports every key as new.
SetNXAlwaysNew(keys, key) == [keys |-> keys \cup {key}, isNew |-> TRUE]

\* SETNX key: the keys after it and whether the key was new.
SetNX(keys, key) == [keys |-> keys \cup {key}, isNew |-> key \notin keys]

\* INCR ratelimit:<user_id>: creates the key at 1, without an expiry.
Incr(rl, key) ==
    IF key \in DOMAIN rl THEN [rl EXCEPT ![key].count = @ + 1]
    ELSE (key :> [count |-> 1, ttl |-> FALSE]) @@ rl

\* EXPIRE ratelimit:<user_id> windowSize
Expire(rl, key) ==
    IF key \in DOMAIN rl THEN [rl EXCEPT ![key].ttl = TRUE] ELSE rl

\* RateLimiter.GetRemainingRequests; ok = FALSE is a failed GET.
GetRemainingRequests(rl, key, ok) ==
    IF ~ok THEN 0
    ELSE IF key \notin DOMAIN rl THEN env.maxRequests
    ELSE IF env.maxRequests - rl[key].count < 0 THEN 0
    ELSE env.maxRequests - rl[key].count

\* The TTL of an idempotency key (10 minutes) runs out.  A request in flight
\* that had created the key does not own a key any more (owns is a record
\* kept for the claims; the handler does not know).
IdemExpires(rid) ==
    /\ "idempotency" \in env.timers
    /\ rid \in idem
    /\ idem' = idem \ {rid}
    /\ idemExpired' = idemExpired \cup {rid}
    /\ hd' = [h \in Handlers |->
                IF hd[h].rid = rid THEN [hd[h] EXCEPT !.owns = FALSE] ELSE hd[h]]
    /\ UNCHANGED <<orders, procVars, orderStatus, ratelimit, cb,
                   failureCount, cbGauge, nBuys, hist, verdicts>>

\* The TTL of a rate-limit key (the window) runs out.
RateLimitExpires(user) ==
    /\ "ratelimit" \in env.timers
    /\ user \in DOMAIN ratelimit
    /\ ratelimit[user].ttl
    /\ ratelimit' = [u \in DOMAIN ratelimit \ {user} |-> ratelimit[u]]
    /\ UNCHANGED <<orders, procVars, idem, idemExpired, orderStatus, cb,
                   failureCount, cbGauge, hd, nBuys, hist, verdicts>>

\* ------------------------------------------------- validation
\* A string of a request field, by what the validation looks at: how many of
\* its characters are in [a-zA-Z0-9_-], how many are other one-byte
\* characters that are not white space, how many are white space, and how
\* many are characters of WideBytes bytes in UTF-8.
maxUserIDLength == 100
maxItemIDLength == 100
maxRequestIDLength == 200
maxAmount == 1000
minAmount == 1
WideBytes == 2

Str(ascii, other, space, wide) ==
    [ascii |-> ascii, other |-> other, space |-> space, wide |-> wide]

EmptyString == Str(0, 0, 0, 0)

\* len(s): the number of bytes.
len(s) == s.ascii + s.other + s.space + WideBytes * s.wide

\* idPattern.MatchString(s), idPattern being ^[a-zA-Z0-9_-]+$
MatchString(s) == s.ascii >= 1 /\ s.other = 0 /\ s.space = 0 /\ s.wide = 0

\* strings.TrimSpace(s), as far as its result is compared with "": a string
\* of white space only becomes empty.
TrimSpace(s) == IF s.ascii + s.other + s.wide = 0 THEN EmptyString ELSE s

ValidationError(field, message) == [Field |-> field, Message |-> message]

\* The errors of one identifier field.
ValidateID(field, s, maxLength) ==
    IF s = EmptyString THEN <<ValidationError(field, "required")>>
    ELSE IF len(s) > maxLength THEN <<ValidationError(field, "too long")>>
    ELSE IF ~MatchString(s) THEN <<ValidationError(field, "invalid characters")>>
    ELSE <<>>

\* ValidateOrderRequest: the list of errors, in the order of the fields.
ValidateOrderRequest(order) ==
    ValidateID("user_id", order.UserID, maxUserIDLength)
    \o ValidateID("item_id", order.ItemID, maxItemIDLength)
    \o (IF order.Amount < minAmount THEN <<ValidationError("amount", "too small")>>
        ELSE IF order.Amount > maxAmount THEN <<ValidationError("amount", "too large")>>
        ELSE <<>>)
    \o (IF order.RequestID = EmptyString
        THEN <<ValidationError("request_id", "required")>>
        ELSE IF len(order.RequestID) > maxRequestIDLength
        THEN <<ValidationError("request_id", "too long")>>
        ELSE IF TrimSpace(order.RequestID) = EmptyString
        THEN <<ValidationError("request_id", "white space only")>>
        ELSE <<>>)

\* var order OrderRequest
ZeroOrder ==
    [UserID |-> EmptyString, ItemID |-> EmptyString, Amount |-> 0,
     RequestID |-> EmptyString]

\* The request bodies of the runs: one that passes the validation, one that
\* does not, and a sample around every limit of the validation.
GoodOrder ==
    [UserID |-> Str(2, 0, 0, 0), ItemID |-> Str(3, 0, 0, 0), Amount |-> 1,
     RequestID |-> Str(2, 0, 0, 0)]

StringsAround(maxLength) ==
    {Str(ascii, other, space, wide) :
        ascii \in {0, maxLength - 1, maxLength}, other \in {0, 1},
        space \in {0, 1}, wide \in {0, 1}}

SampledOrders ==
    [UserID : StringsAround(maxUserIDLength), ItemID : StringsAround(maxItemIDLength),
     Amount : {minAmount - 1, minAmount, maxAmount, maxAmount + 1},
     RequestID : StringsAround(maxRequestIDLength)]

Bodies(kind) ==
    CASE kind = "valid" -> {GoodOrder}
      [] kind = "invalid" -> {[GoodOrder EXCEPT !.Amount = 0]}
      [] kind = "sampled" -> SampledOrders
      [] OTHER -> {}

\* ------------------------------------------------- handleBuy
HandlerIdle ==
    [pc |-> "idle", user |-> "none", rid |-> "none", corr |-> "none", order |-> ZeroOrder,
     count |-> 0, generation |-> 0, sent |-> "none", isNew |-> FALSE, cbErr |-> "nil",
     owns |-> FALSE]

Codes == {202, 400, 409, 429, 500, 503}

\* The answer is written and the handler returns.  The record of answers
\* counts it under the request id (none for a body that did not decode) and
\* keeps what the claims ask about an answer.
Answer(h, code, remaining) ==
    /\ hist' = [hist EXCEPT
                  !.answered[hd[h].rid][code] = @ + 1,
                  !.remaining = IF code = 429 THEN @ \cup {remaining} ELSE @,
                  !.rejected = IF hd[h].cbErr # "nil" THEN @ \cup {code} ELSE @,
                  !.lostAck = IF hd[h].sent = "ack_lost" THEN @ \cup {hd[h].rid} ELSE @,
                  !.accepted = IF code = 202
                               THEN @ \cup {[rid |-> hd[h].rid, corr |-> hd[h].corr]}
                               ELSE @]
    /\ hd' = [hd EXCEPT ![h] = HandlerIdle]

\* ValidateOrderRequest and the 400 answer, once the limiter let the request pass.
Validate(h) ==
    IF ValidateOrderRequest(hd[h].order) = <<>>
    THEN /\ hd' = [hd EXCEPT ![h].pc = "setnx"]
         /\ UNCHANGED hist
    ELSE Answer(h, 400, 0)

\* A /buy request arrives at an idle handler, which decodes the body; a body
\* that does not decode is answered 400.
Decode(h) ==
    /\ hd[h].pc = "idle"
    /\ nBuys < env.buys
    /\ nBuys' = nBuys + 1
    /\ \/ /\ "undecodable" \in env.bodies
          /\ hist' = [hist EXCEPT !.answered["none"][400] = @ + 1]
          /\ UNCHANGED hd
       \/ /\ \E user \in env.users, rid \in RequestIDs, corr \in env.uuids,
                order \in UNION {Bodies(kind) : kind \in env.bodies} :
               hd' = [hd EXCEPT ![h] = [HandlerIdle EXCEPT !.pc = "allow",
                                          !.user = user, !.rid = rid, !.corr = corr,
                                          !.order = order]]
          /\ UNCHANGED hist
    /\ UNCHANGED <<orders, procVars, storeVars, cb, failureCount, cbGauge, verdicts>>

\* A limiter that allows one call more than the limit.
LimitCheckOffByOne(h, user, count) ==
    IF count > env.maxRequests + 1
    THEN /\ hd' = [hd EXCEPT ![h].pc = "remaining"]
         /\ UNCHANGED <<hist, verdicts>>
    ELSE /\ verdicts' = [verdicts EXCEPT ![user].allowed = @ + 1]
         /\ Validate(h)

\* Allow's verdict on the count INCR returned; a passed request goes on to
\* validation.  verdicts counts the verdicts of the current window.
LimitCheck(h, user, count) ==
    IF count > env.maxRequests
    THEN /\ hd' = [hd EXCEPT ![h].pc = "remaining"]
         /\ UNCHANGED <<hist, verdicts>>
    ELSE /\ verdicts' = [verdicts EXCEPT ![user].allowed = @ + 1]
         /\ Validate(h)

\* An Allow that refuses the request when the INCR fails.
AllowIncrFailClosed(h) ==
    /\ hd[h].pc = "allow"
    /\ LET user == hd[h].user
       IN  \/ /\ FALSE \in Replies("INCR")
              /\ hd' = [hd EXCEPT ![h].pc = "remaining"]
              /\ UNCHANGED <<ratelimit, hist, verdicts>>
           \/ LET after == Incr(ratelimit, user)
                  count == after[user].count
              IN  /\ ratelimit' = after
                  /\ IF count = 1
                     THEN /\ verdicts' = [verdicts EXCEPT ![user] = [allowed |-> 0, failedOpen |-> 0]]
                          /\ hd' = [hd EXCEPT ![h].pc = "expire", ![h].count = count]
                          /\ UNCHANGED hist
                     ELSE LimitCheck(h, user, count)
    /\ UNCHANGED <<orders, procVars, idem, idemExpired, orderStatus, cb, failureCount,
                   cbGauge, nBuys>>

\* rateLimiter.Allow: the INCR.  A failed INCR lets the request pass.
AllowIncr(h) ==
    /\ hd[h].pc = "allow"
    /\ LET user == hd[h].user
       IN  \/ /\ FALSE \in Replies("INCR")
              /\ verdicts' = IF user \in DOMAIN ratelimit
                       THEN [verdicts EXCEPT ![user].failedOpen = @ + 1] ELSE verdicts
              /\ Validate(h)
              /\ UNCHANGED ratelimit
           \/ LET after == Incr(ratelimit, user)
                  count == after[user].count
              IN  /\ ratelimit' = after
                  /\ IF count = 1
                     THEN /\ verdicts' = [verdicts EXCEPT ![user] = [allowed |-> 0, failedOpen |-> 0]]
                          /\ hd' = [hd EXCEPT ![h].pc = "expire", ![h].count = count]
                          /\ UNCHANGED hist
                     ELSE LimitCheck(h, user, count)
    /\ UNCHANGED <<orders, procVars, idem, idemExpired, orderStatus, cb, failureCount,
                   cbGauge, nBuys>>

\* rateLimiter.Allow: the EXPIRE after a count of 1 (its result is dropped),
\* then the verdict.
AllowExpire(h) ==
    /\ hd[h].pc = "expire"
    /\ \E ok \in Replies("EXPIRE") :
         ratelimit' = IF ok THEN Expire(ratelimit, hd[h].user) ELSE ratelimit
    /\ LimitCheck(h, hd[h].user, hd[h].count)
    /\ UNCHANGED <<orders, procVars, idem, idemExpired, orderStatus, cb, failureCount,
                   cbGauge, nBuys>>

\* The 429 answer with the remaining count read by a separate GET.
RateLimited(h) ==
    /\ hd[h].pc = "remaining"
    /\ \E ok \in Replies("GET") :
         Answer(h, 429, GetRemainingRequests(ratelimit, hd[h].user, ok))
    /\ UNCHANGED <<orders, procVars, storeVars, cb, failureCount, cbGauge, nBuys, verdicts>>

\* An idempotency check that rolls the key back when it answers 409.
IdempotencyCheckRollbackOnDuplicate(h) ==
    /\ hd[h].pc = "setnx"
    /\ LET r == SetNX(idem, hd[h].rid)
       IN  \/ /\ FALSE \in Replies("SETNX")
              /\ Answer(h, 500, 0)
              /\ UNCHANGED idem
           \/ IF r.isNew
              THEN /\ idem' = r.keys
                   /\ hd' = [hd EXCEPT ![h].pc = "status", ![h].isNew = TRUE, ![h].owns = TRUE]
                   /\ UNCHANGED hist
              ELSE /\ idem' = idem \ {hd[h].rid}
                   /\ Answer(h, 409, 0)
    /\ UNCHANGED <<orders, procVars, idemExpired, orderStatus, ratelimit, cb,
                   failureCount, cbGauge, nBuys, verdicts>>

\* An idempotency check that writes the PROCESSING status also when the key
\* was there.
IdempotencyCheckStatusOnDuplicate(h) ==
    /\ hd[h].pc = "setnx"
    /\ LET r == SetNX(idem, hd[h].rid)
       IN  /\ idem' = r.keys
           /\ IF r.isNew
              THEN /\ hd' = [hd EXCEPT ![h].pc = "status", ![h].isNew = TRUE, ![h].owns = TRUE]
                   /\ UNCHANGED <<hist, orderStatus>>
              ELSE /\ orderStatus' = (hd[h].rid :> "PROCESSING") @@ orderStatus
                   /\ Answer(h, 409, 0)
    /\ UNCHANGED <<orders, procVars, idemExpired, ratelimit, cb,
                   failureCount, cbGauge, nBuys, verdicts>>

\* The idempotency check: SETNX idempotency:<request_id>; 500 when it fails,
\* 409 when the key was there.
IdempotencyCheck(h) ==
    /\ hd[h].pc = "setnx"
    /\ LET r == SetNX(idem, hd[h].rid)
       IN  \/ /\ FALSE \in Replies("SETNX")
              /\ Answer(h, 500, 0)
              /\ UNCHANGED idem
           \/ /\ idem' = r.keys
              /\ IF r.isNew
                 THEN /\ hd' = [hd EXCEPT ![h].pc = "status", ![h].isNew = TRUE, ![h].owns = TRUE]
                      /\ UNCHANGED hist
                 ELSE Answer(h, 409, 0)
    /\ UNCHANGED <<orders, procVars, idemExpired, orderStatus, ratelimit, cb,
                   failureCount, cbGauge, nBuys, verdicts>>

\* SET order_status:<request_id> PROCESSING; its result is dropped.
SetOrderStatus(h) ==
    /\ hd[h].pc = "status"
    /\ \E ok \in Replies("SET") :
         orderStatus' = IF ok THEN (hd[h].rid :> "PROCESSING") @@ orderStatus
                        ELSE orderStatus
    /\ hd' = [hd EXCEPT ![h].pc = "precheck"]
    /\ UNCHANGED <<orders, procVars, idem, idemExpired, ratelimit, cb,
                   failureCount, cbGauge, nBuys, hist, verdicts>>

\* DEL idempotency:<request_id>; its result is dropped.
Del(keys, key, ok) == IF ok THEN keys \ {key} ELSE keys

\* producer.State() before the send, compared with "Open"; on a match the
\* idempotency key is rolled back and the answer is 503.
Precheck(h) ==
    /\ hd[h].pc = "precheck"
    /\ cb' = currentState(cb)
    /\ IF StateString(cb'.state) = "Open"
       THEN /\ \E ok \in Replies("DEL") : idem' = Del(idem, hd[h].rid, ok)
            /\ Answer(h, 503, 0)
       ELSE /\ hd' = [hd EXCEPT ![h].pc = "execute"]
            /\ UNCHANGED <<idem, hist>>
    /\ UNCHANGED <<orders, procVars, idemExpired, orderStatus, ratelimit, failureCount,
                   cbGauge, nBuys, verdicts>>

\* CircuitBreaker.SendMessage: Execute admits or rejects the call.
ExecuteBefore(h) ==
    /\ hd[h].pc = "execute"
    /\ LET r == beforeRequest(cb)
       IN  /\ cb' = r.cb
           /\ hd' = IF r.err = "nil"
                    THEN [hd EXCEPT ![h].pc = "send", ![h].generation = r.generation]
                    ELSE [hd EXCEPT ![h].pc = "failed", ![h].cbErr = r.err]
    /\ UNCHANGED <<orders, procVars, storeVars, failureCount, cbGauge, nBuys, hist, verdicts>>

OrderMessage(h) ==
    [rid |-> hd[h].rid, user |-> hd[h].user, item |-> "101", parses |-> TRUE,
     corr |-> hd[h].corr]

\* CircuitBreaker.SendMessage: the guarded call, producer.SendMessage and the
\* update of failureCount.
ProducerSend(h) ==
    /\ hd[h].pc = "send"
    /\ \E o \in env.sends :
         /\ orders' = IF o = "fail" THEN orders ELSE Append(orders, OrderMessage(h))
         /\ failureCount' = IF o = "ok" THEN 0 ELSE failureCount + 1
         /\ hd' = [hd EXCEPT ![h].pc = "after", ![h].sent = o]
    /\ UNCHANGED <<procVars, storeVars, cb, cbGauge, nBuys, hist, verdicts>>

\* CircuitBreaker.SendMessage: Execute records the result of the call.
ExecuteAfter(h) ==
    /\ hd[h].pc = "after"
    /\ cb' = afterRequest(cb, hd[h].generation, hd[h].sent = "ok")
    /\ hd' = [hd EXCEPT ![h].pc = IF hd[h].sent = "ok" THEN "accept" ELSE "failed"]
    /\ UNCHANGED <<orders, procVars, storeVars, failureCount, cbGauge, nBuys, hist, verdicts>>

\* SendMessage returned an error: the state is read for the log line, the
\* idempotency key is rolled back and the answer is 500.
SendFailed(h) ==
    /\ hd[h].pc = "failed"
    /\ cb' = currentState(cb)
    /\ \E ok \in Replies("DEL") : idem' = Del(idem, hd[h].rid, ok)
    /\ Answer(h, 500, 0)
    /\ UNCHANGED <<orders, procVars, idemExpired, orderStatus, ratelimit,
                   failureCount, cbGauge, nBuys, verdicts>>

\* The order was queued: the gauge is set from the state's name, the answer is 202.
Accepted(h) ==
    /\ hd[h].pc = "accept"
    /\ cb' = currentState(cb)
    /\ cbGauge' = GaugeValue(StateString(cb'.state))
    /\ Answer(h, 202, 0)
    /\ UNCHANGED <<orders, procVars, storeVars, failureCount, nBuys, verdicts>>

\* GET /health: the ping, the Kafka flag from the name of the breaker's state,
\* the status code.  The record of answers keeps the last health answer and
\* the state the breaker was in when it was given.
handleHealth ==
    \E redisHealthy \in Replies("PING") :
        LET c == currentState(cb)
            kafkaHealthy == StateString(c.state) # "Open"
            status == IF ~redisHealthy \/ ~kafkaHealthy THEN 503 ELSE 200
        IN  /\ cb' = c
            /\ hist' = [hist EXCEPT !.health =
                           [redis |-> redisHealthy, kafka |-> kafkaHealthy, status |-> status,
                            ping |-> redisHealthy, state |-> c.state]]
            /\ UNCHANGED <<orders, procVars, storeVars, failureCount, cbGauge, hd, nBuys,
                           verdicts>>

\* ------------------------------------------------- processor runs
Messages == [item : Items, parses : BOOLEAN]

SeqsUpTo(S, n) == UNION {[1..k -> S] : k \in 0..n}

Seeds == UNION {[K -> 0..MaxStock] : K \in SUBSET Items}

\* The gateway after main(): empty store, closed breaker, no request yet.
DefaultMaxRequests == 60

NoRequests ==
    [buys |-> 0, maxRequests |-> DefaultMaxRequests, users |-> {}, bodies |-> {},
     redisFaults |-> {}, sends |-> {}, timers |-> {},
     uuids |-> {"c1"}]

InitGateway ==
    /\ idem = {}
    /\ idemExpired = {}
    /\ orderStatus = <<>>
    /\ ratelimit = <<>>
    /\ cb = [state |-> "StateClosed", generation |-> 1, counts |-> ZeroCounts, expired |-> FALSE,
             changed |-> <<>>, wait |-> Interval]
    /\ failureCount = 0
    /\ cbGauge = 0
    /\ hd = [h \in Handlers |-> HandlerIdle]
    /\ nBuys = 0
    /\ hist = [answered |-> [r \in RequestIDs \cup {"none"} |-> [c \in Codes |-> 0]],
               remaining |-> {}, rejected |-> {}, lostAck |-> {}, health |-> <<>>,
               accepted |-> {}]
    /\ verdicts = [u \in Users |-> [allowed |-> 0, failedOpen |-> 0]]

InitInv ==
    /\ inventory \in Seeds
    /\ initialStock = inventory
    /\ orders \in SeqsUpTo(Messages, MaxOrders)
    /\ ordersDlq = <<>>
    /\ offset = 0
    /\ wk = [w \in Workers |-> Idle]
    /\ outcome = [m \in 1..Len(orders) |-> "none"]
    /\ InitDLQMetrics
    /\ proc = Running
    /\ InitGateway
    /\ env = NoRequests

NextInv ==
    \E w \in Workers : Consume(w) \/ Reserve(w) \/ Payment(w) \/ Refund(w)

SpecInv == InitInv /\ [][NextInv]_vars

\* Worker runs: the messages carry the request id the gateway put in the
\* request_id header, and the store holds what the gateway wrote for them on
\* admission, the idempotency key and the PROCESSING status.
OrderMessages == [rid : RequestIDs, user : {"u1"}, item : Items, parses : BOOLEAN]

InitWorker ==
    /\ inventory \in Seeds
    /\ initialStock = inventory
    /\ orders \in SeqsUpTo(OrderMessages, MaxOrders)
    /\ ordersDlq = <<>>
    /\ offset = 0
    /\ wk = [w \in Workers |-> Idle]
    /\ outcome = [m \in 1..Len(orders) |-> "none"]
    /\ InitDLQMetrics
    /\ proc = Running
    /\ idem = {orders[m].rid : m \in 1..Len(orders)}
    /\ idemExpired = {}
    /\ orderStatus = [r \in idem |-> "PROCESSING"]
    /\ ratelimit = <<>>
    /\ cb = [state |-> "StateClosed", generation |-> 1, counts |-> ZeroCounts, expired |-> FALSE,
             changed |-> <<>>, wait |-> Interval]
    /\ failureCount = 0
    /\ cbGauge = 0
    /\ hd = [h \in Handlers |-> HandlerIdle]
    /\ nBuys = 0
    /\ hist = [answered |-> [r \in RequestIDs \cup {"none"} |-> [c \in Codes |-> 0]],
               remaining |-> {}, rejected |-> {}, lostAck |-> {}, health |-> <<>>,
               accepted |-> {}]
    /\ verdicts = [u \in Users |-> [allowed |-> 0, failedOpen |-> 0]]
    /\ env = NoRequests

SpecWorker == InitWorker /\ [][NextInv]_vars

\* ------------------------------------------------- processor start-up
\* The goroutine of main() that ranges over partitionConsumer.Messages().
Loop == 1

\* consumer.ConsumePartition("orders", 0, sarama.OffsetNewest): consumption
\* starts at the end of the topic as it is at this moment.
StartConsumer ==
    /\ proc.main = "setup"
    /\ proc' = [proc EXCEPT !.consumer = "open", !.main = "select"]
    /\ offset' = Len(orders)
    /\ UNCHANGED <<inventory, orders, ordersDlq, wk, outcome, dlqMetrics, lockVars, initialStock,
                   env, gwVars>>

\* The gateway's producer.SendMessage for an accepted /buy, as the processor
\* sees it: one more message on orders.
Enqueue ==
    /\ Len(orders) < MaxOrders
    /\ \E msg \in {m \in Messages : m.parses} : orders' = Append(orders, msg)
    /\ outcome' = [m \in 1..(Len(orders) + 1) |->
                      IF m <= Len(orders) THEN outcome[m] ELSE "none"]
    /\ UNCHANGED <<inventory, ordersDlq, offset, wk, dlqMetrics, lockVars, initialStock, proc,
                   env, gwVars>>

\* The processor from the top of main(), the gateway enqueueing before and
\* after the consumer is set up.
InitStart ==
    /\ inventory \in Seeds
    /\ initialStock = inventory
    /\ orders = <<>>
    /\ ordersDlq = <<>>
    /\ offset = 0
    /\ wk = [w \in Workers |-> Idle]
    /\ outcome = <<>>
    /\ InitDLQMetrics
    /\ proc = [Running EXCEPT !.consumer = "none", !.main = "setup"]
    /\ InitGateway
    /\ env = NoRequests

LoopStep == Consume(Loop) \/ Reserve(Loop) \/ Payment(Loop) \/ Refund(Loop)

NextStart ==
    \/ StartConsumer
    \/ Enqueue
    \/ Consume(Loop) \/ Reserve(Loop) \/ Payment(Loop) \/ Refund(Loop)

\* Fair scheduling: main() goes on to set up the consumer, the loop goes on
\* with the message it has and takes the next one; enqueues are not forced.
SpecStartFair ==
    /\ InitStart /\ [][NextStart]_vars
    /\ WF_vars(StartConsumer)
    /\ WF_vars(LoopStep)

\* ------------------------------------------------- processor shutdown
\* What main() and the loop leave alone.
workVars == <<inventory, orders, ordersDlq, offset, wk, outcome, dlqMetrics, lockVars,
              initialStock>>

\* case <-shutdown: the signal is received by main()'s select.
Signal ==
    /\ proc.main = "select"
    /\ proc' = [proc EXCEPT !.main = "closeConsumer"]
    /\ UNCHANGED <<workVars, env, gwVars>>

\* A main() that closes the clients without waiting for the loop.
CloseConsumerNoDrain ==
    /\ proc.main = "closeConsumer"
    /\ proc' = [proc EXCEPT !.consumer = "closed", !.main = "closeProducer"]
    /\ UNCHANGED <<workVars, env, gwVars>>

\* partitionConsumer.Close() and consumer.Close(): the Messages channel is
\* closed; then main() waits for done or for the 30 s drain.
CloseConsumer ==
    /\ proc.main = "closeConsumer"
    /\ proc' = [proc EXCEPT !.consumer = "closed", !.main = "drain"]
    /\ UNCHANGED <<workVars, env, gwVars>>

\* The range over the closed Messages channel ends once processOrder has
\* returned; the goroutine offers done <- true.
LoopEnds ==
    /\ proc.consumer = "closed"
    /\ proc.loop = "running"
    /\ proc.main # "exited"
    /\ wk[Loop].pc = "idle"
    /\ proc' = [proc EXCEPT !.loop = "done"]
    /\ UNCHANGED <<workVars, env, gwVars>>

\* case <-done: main() receives from the loop.
Drained ==
    /\ proc.main = "drain"
    /\ proc.loop = "done"
    /\ proc' = [proc EXCEPT !.main = "closeProducer", !.drain = "done", !.loop = "exited"]
    /\ UNCHANGED <<workVars, env, gwVars>>

\* case <-shutdownCtx.Done(): the 30 s have passed.
DrainExpires ==
    /\ proc.main = "drain"
    /\ proc' = [proc EXCEPT !.main = "closeProducer", !.drain = "expired"]
    /\ UNCHANGED <<workVars, env, gwVars>>

\* producer.Close()
CloseProducer ==
    /\ proc.main = "closeProducer"
    /\ proc' = [proc EXCEPT !.main = "closeRedis", !.producer = "closed"]
    /\ UNCHANGED <<workVars, env, gwVars>>

\* redisClient.Close(), after which main() returns and the process ends.
CloseRedis ==
    /\ proc.main = "closeRedis"
    /\ proc' = [proc EXCEPT !.main = "exited", !.redis = "closed"]
    /\ UNCHANGED <<workVars, env, gwVars>>

MainStep == CloseConsumer \/ Drained \/ DrainExpires \/ CloseProducer \/ CloseRedis

NextShutdown ==
    \/ Consume(Loop) \/ Reserve(Loop) \/ Payment(Loop) \/ Refund(Loop)
    \/ Signal \/ CloseConsumer \/ LoopEnds \/ Drained \/ DrainExpires
    \/ CloseProducer \/ CloseRedis

\* Fair scheduling: main() goes on after the signal and the drain timer
\* fires; neither the signal nor the loop's progress is forced.
SpecShutdownFair ==
    /\ InitInv /\ [][NextShutdown]_vars
    /\ WF_vars(MainStep)

\* ------------------------------------------------- gateway runs
\* The processor of a gateway run: nothing seeded, nothing consumed.
InitProcessor ==
    /\ inventory = <<>>
    /\ initialStock = inventory
    /\ orders = <<>>
    /\ ordersDlq = <<>>
    /\ offset = 0
    /\ wk = [w \in Workers |-> Idle]
    /\ outcome = <<>>
    /\ InitDLQMetrics
    /\ proc = Running

\* Admission runs: valid requests that may share a request id, a producer
\* whose publish can fail or lose its acknowledgement, Redis commands on the
\* idempotency key that can fail, idempotency keys that can expire.  The
\* rate limit is the default, which MaxBuys requests never reach.
AdmissionEnv ==
    [buys |-> MaxBuys, maxRequests |-> DefaultMaxRequests, users |-> {"u1"},
     bodies |-> {"valid"}, redisFaults |-> {"SETNX", "DEL"}, sends |-> SendOutcomes, timers |-> {"idempotency"},
     uuids |-> {"c1"}]

InitGw == InitGateway /\ InitProcessor /\ env = AdmissionEnv

NextGw ==
    \/ \E h \in Handlers :
          \/ Decode(h) \/ AllowIncr(h) \/ AllowExpire(h)
          \/ IdempotencyCheck(h) \/ SetOrderStatus(h) \/ Precheck(h)
          \/ ExecuteBefore(h) \/ ProducerSend(h) \/ ExecuteAfter(h)
          \/ SendFailed(h) \/ Accepted(h)
    \/ \E rid \in RequestIDs : IdemExpires(rid)

SpecGw == InitGw /\ [][NextGw]_vars

\* Rate-limit runs: two users, a small limit that the requests of a run
\* exceed, bodies of every kind, limiter commands that can fail, rate-limit
\* keys that can expire.  Behind the limiter nothing fails.
RateLimitEnv ==
    [buys |-> MaxBuys, maxRequests |-> maxRequests, users |-> Users,
     bodies |-> {"valid", "invalid", "undecodable"},
     redisFaults |-> {"INCR", "EXPIRE", "GET"}, sends |-> {"ok"}, timers |-> {"ratelimit"},
     uuids |-> {"c1"}]

InitRL == InitGateway /\ InitProcessor /\ env = RateLimitEnv

NextRL ==
    \/ \E h \in Handlers :
          \/ Decode(h) \/ AllowIncr(h) \/ AllowExpire(h) \/ RateLimited(h)
          \/ IdempotencyCheck(h) \/ SetOrderStatus(h) \/ Precheck(h)
          \/ ExecuteBefore(h) \/ ProducerSend(h) \/ ExecuteAfter(h) \/ Accepted(h)
    \/ \E user \in Users : RateLimitExpires(user)

SpecRL == InitRL /\ [][NextRL]_vars

\* Status runs: valid requests of one user that may share a request id, a
\* SET of the order status that can fail, a publish that can fail.
StatusEnv ==
    [buys |-> MaxBuys, maxRequests |-> DefaultMaxRequests, users |-> {"u1"},
     bodies |-> {"valid"}, redisFaults |-> {"SET"}, sends |-> {"ok", "fail"}, timers |-> {},
     uuids |-> {"c1"}]

InitStatus == InitGateway /\ InitProcessor /\ env = StatusEnv

NextStatus ==
    \E h \in Handlers :
        \/ Decode(h) \/ AllowIncr(h) \/ AllowExpire(h)
        \/ IdempotencyCheck(h) \/ SetOrderStatus(h) \/ Precheck(h)
        \/ ExecuteBefore(h) \/ ProducerSend(h) \/ ExecuteAfter(h)
        \/ SendFailed(h) \/ Accepted(h)

SpecStatus == InitStatus /\ [][NextStatus]_vars

\* Breaker runs: valid requests of one user, a publish that can fail, and
\* the breaker's expiries (the Closed interval, the Open timeout).
BreakerEnv ==
    [buys |-> MaxBreakerBuys, maxRequests |-> DefaultMaxRequests, users |-> {"u1"},
     bodies |-> {"valid"}, redisFaults |-> {}, sends |-> {"ok", "fail"},
     timers |-> {"breaker", "interval"},
     uuids |-> {"c1"}]

InitCb == InitGateway /\ InitProcessor /\ env = BreakerEnv

NextCb ==
    \/ \E h \in Handlers :
          \/ Decode(h) \/ AllowIncr(h) \/ AllowExpire(h)
          \/ IdempotencyCheck(h) \/ SetOrderStatus(h) \/ Precheck(h)
          \/ ExecuteBefore(h) \/ ProducerSend(h) \/ ExecuteAfter(h)
          \/ SendFailed(h) \/ Accepted(h)
    \/ BreakerTimerExpires

SpecCb == InitCb /\ [][NextCb]_vars

\* The gateway through an outage, under fair scheduling: the open timeout
\* passes when it is due, and a request that was received is handled to its
\* answer; whether another request arrives is left open.
OutageEnv ==
    [buys |-> MaxBreakerBuys, maxRequests |-> DefaultMaxRequests, users |-> {"u1"},
     bodies |-> {"valid"}, redisFaults |-> {}, sends |-> {"ok", "fail"},
     timers |-> {"breaker"},
     uuids |-> {"c1"}]

InitOutage == InitGateway /\ InitProcessor /\ env = OutageEnv

HandlerStep(h) ==
    \/ AllowIncr(h) \/ AllowExpire(h)
    \/ IdempotencyCheck(h) \/ SetOrderStatus(h) \/ Precheck(h)
    \/ ExecuteBefore(h) \/ ProducerSend(h) \/ ExecuteAfter(h)
    \/ SendFailed(h) \/ Accepted(h)

NextOutage ==
    \/ \E h \in Handlers :
          \/ Decode(h) \/ AllowIncr(h) \/ AllowExpire(h)
          \/ IdempotencyCheck(h) \/ SetOrderStatus(h) \/ Precheck(h)
          \/ ExecuteBefore(h) \/ ProducerSend(h) \/ ExecuteAfter(h)
          \/ SendFailed(h) \/ Accepted(h)
    \/ BreakerTimerExpires

SpecOutageFair ==
    /\ InitOutage /\ [][NextOutage]_vars
    /\ WF_vars(BreakerTimerExpires)
    /\ \A h \in Handlers : WF_vars(HandlerStep(h))

\* End-to-end runs: requests with distinct correlation ids are admitted and
\* published, and the processor consumes what is published; scripts and the
\* payment can fail, so that messages are dead-lettered.
MaxTracedBuys == 2

TraceEnv ==
    [buys |-> MaxTracedBuys, maxRequests |-> DefaultMaxRequests, users |-> {"u1"},
     bodies |-> {"valid"}, redisFaults |-> {}, sends |-> {"ok"}, timers |-> {},
     uuids |-> {"c1", "c2"}]

InitTrace ==
    /\ InitGateway
    /\ inventory \in Seeds
    /\ initialStock = inventory
    /\ orders = <<>>
    /\ ordersDlq = <<>>
    /\ offset = 0
    /\ wk = [w \in Workers |-> Idle]
    /\ outcome = <<>>
    /\ InitDLQMetrics
    /\ proc = Running
    /\ env = TraceEnv

NextTrace ==
    \/ \E h \in Handlers :
          \/ Decode(h) \/ AllowIncr(h) \/ AllowExpire(h)
          \/ IdempotencyCheck(h) \/ SetOrderStatus(h) \/ Precheck(h)
          \/ ExecuteBefore(h) \/ ProducerSend(h) \/ ExecuteAfter(h) \/ Accepted(h)
    \/ Consume(Loop) \/ Reserve(Loop) \/ Payment(Loop) \/ Refund(Loop)

SpecTrace == InitTrace /\ [][NextTrace]_vars

\* Validation runs: one request whose body is any of the sampled orders, an
\* environment without faults.
ValidateEnv ==
    [buys |-> 1, maxRequests |-> DefaultMaxRequests, users |-> {"u1"},
     bodies |-> {"sampled"}, redisFaults |-> {}, sends |-> {"ok"}, timers |-> {},
     uuids |-> {"c1"}]

InitValidate == InitGateway /\ InitProcessor /\ env = ValidateEnv

NextValidate ==
    \E h \in Handlers :
        \/ Decode(h) \/ AllowIncr(h) \/ AllowExpire(h)
        \/ IdempotencyCheck(h) \/ SetOrderStatus(h) \/ Precheck(h)
        \/ ExecuteBefore(h) \/ ProducerSend(h) \/ ExecuteAfter(h) \/ Accepted(h)

SpecValidate == InitValidate /\ [][NextValidate]_vars

\* The gateway through an outage, probed by GET /health while Redis may be
\* unreachable.
HealthEnv ==
    [buys |-> MaxBreakerBuys, maxRequests |-> DefaultMaxRequests, users |-> {"u1"},
     bodies |-> {"valid"}, redisFaults |-> {"PING"}, sends |-> {"ok", "fail"},
     timers |-> {"breaker"},
     uuids |-> {"c1"}]

InitHealth == InitGateway /\ InitProcessor /\ env = HealthEnv

NextHealth ==
    \/ \E h \in Handlers :
          \/ Decode(h) \/ AllowIncr(h) \/ AllowExpire(h)
          \/ IdempotencyCheck(h) \/ SetOrderStatus(h) \/ Precheck(h)
          \/ ExecuteBefore(h) \/ ProducerSend(h) \/ ExecuteAfter(h)
          \/ SendFailed(h) \/ Accepted(h)
    \/ BreakerTimerExpires
    \/ handleHealth

SpecHealth == InitHealth /\ [][NextHealth]_vars

\* The gateway through an outage shorter than the 60 s interval: publishes
\* fail or succeed, the open timeout passes, idempotency keys expire.
ProbeEnv ==
    [buys |-> MaxProbeBuys, maxRequests |-> DefaultMaxRequests, users |-> {"u1"},
     bodies |-> {"valid"}, redisFaults |-> {}, sends |-> {"ok", "fail"},
     timers |-> {"breaker", "idempotency"},
     uuids |-> {"c1"}]

InitProbe == InitGateway /\ InitProcessor /\ env = ProbeEnv

NextProbe ==
    \/ \E h \in Handlers :
          \/ Decode(h) \/ AllowIncr(h) \/ AllowExpire(h)
          \/ IdempotencyCheck(h) \/ SetOrderStatus(h) \/ Precheck(h)
          \/ ExecuteBefore(h) \/ ProducerSend(h) \/ ExecuteAfter(h)
          \/ SendFailed(h) \/ Accepted(h)
    \/ BreakerTimerExpires
    \/ \E rid \in RequestIDs : IdemExpires(rid)

SpecProbe == InitProbe /\ [][NextProbe]_vars

\* ------------------------------------------------- inventory claims
Quiescent ==
    /\ offset = Len(orders)
    /\ \A w \in Workers : wk[w].pc = "idle"

\* The messages for an item that ended with the given event.
Ended(item, event) ==
    {m \in 1..Len(orders) : orders[m].item = item /\ outcome[m] = event}

Completed(item) == Ended(item, "order_processed_success")

Seeded(item) == IF item \in DOMAIN initialStock THEN initialStock[item] ELSE 0

\* C1: between script executions every existing inventory key holds a value
\* >= 0, whatever the interleaving of reserve and refund runs of the workers.
C1_InventoryNonNegative ==
    \A item \in DOMAIN inventory : inventory[item] >= 0

\* A reserve run has hit an empty stock (reply SOLD_OUT, the excursion to -1
\* inside the script) and a refund run has been issued, and the key reads 0.
C1_Witness ==
    \E item \in DOMAIN inventory :
        /\ inventory[item] = 0
        /\ Ended(item, "order_sold_out") # {}
        /\ Ended(item, "payment_timeout") # {}

\* C2: for an item seeded with stock N, at most N orders end completed
\* (reserve succeeded and payment succeeded), in every schedule.
C2_NoOversell ==
    \A item \in Items : Cardinality(Completed(item)) <= Seeded(item)

\* All of the seeded stock was sold to completed orders and a further order
\* for the item was turned away.
C2_Witness ==
    \E item \in Items :
        /\ Seeded(item) >= 1
        /\ Cardinality(Completed(item)) = Seeded(item)
        /\ Ended(item, "order_sold_out") # {}

\* C3: at quiescence the inventory of an item equals its seeded value minus
\* the number of completed orders for it, on every path, also after a payment
\* failure whose refund attempt fails or times out.  (Stated on the runs in
\* which every reserve call got its reply, which are the runs the claim
\* singles out.)
C3_InventoryConservation ==
    (Quiescent /\ \A item \in Items : Ended(item, "reserve_failed") = {})
        => \A item \in DOMAIN inventory :
               inventory[item] = Seeded(item) - Cardinality(Completed(item))

\* ------------------------------------------------- admission claims
\* The messages on the orders topic that bear the request id.
Published(rid) == {m \in 1..Len(orders) : orders[m].rid = rid}

\* The handlers working on a request with the request id.
InFlight(rid) == {h \in Handlers : hd[h].pc # "idle" /\ hd[h].rid = rid}

\* The number of answers given to requests with the request id.
Answers(rid) == hist.answered[rid][202] + hist.answered[rid][400] + hist.answered[rid][409]
                  + hist.answered[rid][429] + hist.answered[rid][500] + hist.answered[rid][503]

\* C4 as stated: of the requests with one request id, once all are answered,
\* exactly one got 202 and every other one got 409.
C4_ExactlyOneAccepted ==
    \A rid \in RequestIDs \ idemExpired :
        (InFlight(rid) = {} /\ Answers(rid) > 0)
            => /\ hist.answered[rid][202] = 1
               /\ hist.answered[rid][409] = Answers(rid) - 1

\* C4, amended: within the TTL window of the idempotency key at most one
\* request with a given request id gets 202 (none when the first admission
\* ends in an error answer), and once one got 202 the key stays, so that the
\* others are refused.
C4_AtMostOneAccepted ==
    \A rid \in RequestIDs \ idemExpired :
        /\ hist.answered[rid][202]
              + Cardinality({h \in InFlight(rid) : hd[h].pc = "accept"}) <= 1
        /\ hist.answered[rid][202] = 1 => rid \in idem

\* One request id has been answered 500 (enqueue failed), then 202, then 409.
C4_Witness ==
    \E rid \in RequestIDs \ idemExpired :
        /\ hist.answered[rid][500] = 1
        /\ hist.answered[rid][202] = 1
        /\ hist.answered[rid][409] = 1

\* C5: while the idempotency key's TTL window has not expired, at most one
\* message per request id is on the orders topic, also after an enqueue whose
\* acknowledgement was lost and a retry by the client.
C5_AtMostOneMessage ==
    \A rid \in RequestIDs \ idemExpired : Cardinality(Published(rid)) <= 1

\* C6: a request id whose requests were all answered, none of them with 202,
\* has no message on the orders topic.
C6_NoStrayMessage ==
    \A rid \in RequestIDs :
        (InFlight(rid) = {} /\ Answers(rid) > 0 /\ hist.answered[rid][202] = 0)
            => Published(rid) = {}

\* C7: an idempotency key that exists has a message on the orders topic or
\* an owner that is still between the reservation and the rollback, also
\* when the rollback's DEL failed.
C7_KeyImpliesMessageOrOwner ==
    \A rid \in idem :
        \/ Published(rid) # {}
        \/ \E h \in InFlight(rid) : hd[h].isNew

\* C8 as stated: while the breaker is Open no publish call is in progress.
C8_NoPublishInProgressWhileOpen ==
    currentState(cb).state = "StateOpen" => \A h \in Handlers : hd[h].pc # "send"

\* C8, amended: no publish call is started while the breaker is Open; a call
\* that enters the guarded send while it is Open is rejected before the
\* producer is reached (a publish in progress when the breaker opens goes on).
C8_NoPublishStartedWhileOpen ==
    [][\A h \in Handlers :
          (hd[h].pc # "send" /\ hd'[h].pc = "send")
              => currentState(cb).state # "StateOpen"]_vars

\* The breaker is Open and a request that entered the guarded send was
\* rejected with the open outcome.
C8_Witness ==
    /\ cb.state = "StateOpen"
    /\ \E h \in Handlers : hd[h].pc = "failed" /\ hd[h].cbErr = "ErrOpenState"

\* C9: a request whose guarded send was rejected by the breaker (open, or
\* the half-open quota used up) is answered 503, not 500.
C9_RejectedAnswered503 ==
    hist.rejected \subseteq {503}

\* ------------------------------------------------- rate-limit claims
\* C10 as stated: per user and window at most max_requests calls to the
\* limiter are allowed, the calls let through after a failed INCR included.
C10_AtMostMaxAllowedOfAllCalls ==
    \A user \in Users :
        verdicts[user].allowed + verdicts[user].failedOpen <= env.maxRequests

\* C10, amended: per user and window at most max_requests of the calls whose
\* INCR succeeded are allowed, in every interleaving; the calls whose INCR
\* failed are let through on top of them.
C10_AtMostMaxAllowed ==
    \A user \in Users : verdicts[user].allowed <= env.maxRequests

\* A user's window is used up, and a further call of the window got 429.
C10_Witness ==
    \E user \in Users :
        /\ user \in DOMAIN ratelimit
        /\ verdicts[user].allowed = env.maxRequests
        /\ ratelimit[user].count > env.maxRequests
        /\ \E rid \in RequestIDs : hist.answered[rid][429] > 0

\* C11: every 429 answer carries remaining_requests = 0, also when the
\* rate-limit key expires or is incremented between the limiter's INCR and
\* the GET that computes the remaining count.
C11_RemainingIsZero ==
    hist.remaining \subseteq {0}

\* ------------------------------------------------- frame claims of /buy
ClientErrors == {400, 409, 429}

\* In this step handler h writes an answer with one of the codes and returns.
AnswersWith(h, codes) ==
    /\ hd[h].pc # "idle"
    /\ hd'[h].pc = "idle"
    /\ \E c \in codes : hist'.answered[hd[h].rid][c] = hist.answered[hd[h].rid][c] + 1

\* In this step a body that does not decode is answered.
AnswersUndecodable == hist'.answered["none"][400] = hist.answered["none"][400] + 1

\* Handler h has, in its earlier steps, created no idempotency key, written
\* no status and published nothing.
WroteNothing(h) == ~hd[h].isNew /\ hd[h].sent = "none"

C13_DuplicateChangesNothing ==
    [][\A h \in Handlers :
          AnswersWith(h, {409})
              => /\ WroteNothing(h)
                 /\ hd[h].rid \in idem
                 /\ UNCHANGED <<idem, orderStatus, orders>>]_vars

\* A duplicate was answered 409 for a request id whose admission had failed
\* to write the status: the key is there, the status is still absent and
\* there is one message.
C13_Witness ==
    \E rid \in RequestIDs :
        /\ hist.answered[rid][409] >= 1
        /\ rid \in idem
        /\ rid \notin DOMAIN orderStatus
        /\ Cardinality(Published(rid)) = 1

\* ------------------------------------------------- worker outcome claims
TerminalStatuses == {"COMPLETED", "FAILED_SOLD_OUT", "FAILED_PAYMENT"}

\* The terminal status the outcome of a parsed message calls for.
StatusFor(event) ==
    CASE event = "order_processed_success" -> "COMPLETED"
      [] event = "order_sold_out" -> "FAILED_SOLD_OUT"
      [] event = "payment_timeout" -> "FAILED_PAYMENT"
      [] OTHER -> "none"

\* The messages of the orders topic that bear the request id.
Bearing(rid) == {m \in 1..Len(orders) : orders[m].rid = rid}

\* C14: once the worker has finished a message that parses (the only one
\* with its request id), order_status:<request_id> holds the terminal value
\* of the outcome: COMPLETED, FAILED_SOLD_OUT or FAILED_PAYMENT.
C14_TerminalStatusWritten ==
    \A m \in 1..Len(orders) :
        (orders[m].parses /\ StatusFor(outcome[m]) # "none" /\ Bearing(orders[m].rid) = {m})
            => /\ orders[m].rid \in DOMAIN orderStatus
               /\ orderStatus[orders[m].rid] = StatusFor(outcome[m])

\* C15: every message the worker has finished has left a terminal status
\* under order_status:<request_id> or a record on orders-dlq whose headers
\* name the request id.
C15_StatusOrDeadLetter ==
    \A m \in 1..Len(orders) :
        outcome[m] # "none"
            => \/ /\ orders[m].rid \in DOMAIN orderStatus
                  /\ orderStatus[orders[m].rid] \in TerminalStatuses
               \/ /\ "request_id" \in DlqHeaderKeys
                  /\ \E d \in 1..Len(ordersDlq) : ordersDlq[d].value = orders[m]

\* ------------------------------------------------- compensation claims
\* The records on orders-dlq with the given error header.
DeadLettered(reason) == {d \in 1..Len(ordersDlq) : ordersDlq[d].error = reason}

\* C16: a record on orders-dlq with reason Payment Timeout stands for a
\* message whose reserved unit was refunded: for a single order the
\* inventory after the dead-lettering is the inventory before its reserve.
C16_DeadLetteredAfterRefund ==
    (Len(orders) = 1 /\ DeadLettered("Payment Timeout") # {})
        => inventory = initialStock

\* In this step worker w finishes its message with the given event.
EndsWith(w, event) ==
    /\ wk[w].pc # "idle"
    /\ outcome[wk[w].m] = "none"
    /\ outcome'[wk[w].m] = event

\* C17: a reserve call that ends, as the worker sees it, in a deadline
\* timeout or a store error leaves the inventory as it was before the call,
\* also when the store ran the script and only the reply came too late.
C17_FailedReserveLeavesInventory ==
    [][\A w \in Workers : EndsWith(w, "reserve_failed") => inventory' = inventory]_vars

RecordsFailure(h) ==
    /\ hd[h].pc = "after" /\ hd'[h].pc = "failed"
    /\ hd[h].generation = currentState(cb).generation

RecordsSuccess(h) ==
    /\ hd[h].pc = "after" /\ hd'[h].pc = "accept"
    /\ hd[h].generation = currentState(cb).generation

\* C19 as stated: the breaker is Open once failure_threshold consecutive
\* publish failures have occurred and their results are recorded
\* (failureCount counts the publish failures since the last success).
C19_OpenAtThresholdOfPublishFailures ==
    (currentState(cb).state = "StateClosed" /\ \A h \in Handlers : hd[h].pc # "after")
        => failureCount < failureThreshold

\* C19, amended: in Closed every call is let through to the producer; the
\* breaker moves to Open exactly in the step that records the failure which
\* brings its count of consecutive failures to failure_threshold, the count
\* being of the results recorded since the last recorded success and since
\* the last reset of the counts by the 60 s interval (results of calls let in
\* before a reset are not recorded); a recorded success restarts the count.
C19_OpenAtThresholdOfRecordedFailures ==
    [][currentState(cb).state = "StateClosed"
        => /\ \A h \in Handlers :
                (hd[h].pc = "execute" /\ hd'[h].pc # "execute") => hd'[h].pc = "send"
           /\ currentState(cb').state = "StateOpen"
                <=> \E h \in Handlers :
                       /\ RecordsFailure(h)
                       /\ currentState(cb).counts.ConsecutiveFailures + 1 = failureThreshold
           /\ \A h \in Handlers :
                RecordsSuccess(h) => currentState(cb').counts.ConsecutiveFailures = 0]_vars

\* The breaker went from Closed to Open although one publish failure more
\* than failure_threshold was needed, the interval having reset the count.
C19_Witness ==
    /\ cb.state = "StateOpen"
    /\ cb.changed = <<"StateClosed", "StateOpen">>
    /\ failureCount = failureThreshold + 1

\* C20: in HalfOpen the breaker moves to Closed, with its counts reset,
\* exactly in the step that records the success_threshold-th consecutive
\* success of a probe, and a recorded probe failure moves it to Open.
C20_HalfOpenTransitions ==
    [][currentState(cb).state = "StateHalfOpen"
        => /\ currentState(cb').state = "StateClosed"
                <=> \E h \in Handlers :
                       /\ RecordsSuccess(h)
                       /\ currentState(cb).counts.ConsecutiveSuccesses + 1 = successThreshold
           /\ currentState(cb').state = "StateClosed" => currentState(cb').counts = ZeroCounts
           /\ currentState(cb').state = "StateOpen"
                <=> \E h \in Handlers : RecordsFailure(h)]_vars

\* The breaker has closed from HalfOpen after success_threshold probes were
\* answered 202.
C20_Witness ==
    /\ cb.state = "StateClosed"
    /\ cb.changed = <<"StateHalfOpen", "StateClosed">>
    /\ cb.counts = ZeroCounts
    /\ hist.answered["r1"][202] + hist.answered["r2"][202] >= successThreshold

\* ------------------------------------------------------------ probe claims
\* The calls of handler h's request that Execute let through in the breaker's
\* present generation and whose result is not yet recorded.
ProbeInFlight(h) ==
    /\ hd[h].pc \in {"send", "after"}
    /\ hd[h].generation = currentState(cb).generation

\* The calls let through in the present half-open period: those in flight and
\* those that succeeded (a failed one ends the period).
ProbesAdmitted ==
    Cardinality({h \in Handlers : ProbeInFlight(h)})
        + currentState(cb).counts.ConsecutiveSuccesses

\* C21: in one half-open period at most success_threshold calls are let
\* through to the producer, however the /buy requests interleave, and a call
\* that arrives when that many were let through is rejected by the breaker
\* without a publish.
C21_AtMostThresholdProbes ==
    /\ [](currentState(cb).state = "StateHalfOpen" => ProbesAdmitted <= successThreshold)
    /\ [][\A h \in Handlers :
            (/\ currentState(cb).state = "StateHalfOpen"
             /\ ProbesAdmitted = successThreshold
             /\ hd[h].pc = "execute" /\ hd'[h].pc # "execute")
                => /\ hd'[h].pc = "failed" /\ hd'[h].cbErr = "ErrTooManyRequests"
                   /\ orders' = orders]_vars

\* A call was rejected in HalfOpen because success_threshold probes had been
\* let through, one of them still in flight.
C21_Witness ==
    /\ cb.state = "StateHalfOpen"
    /\ ProbesAdmitted = successThreshold
    /\ \E h \in Handlers : ProbeInFlight(h)
    /\ \E h \in Handlers : hd[h].pc = "failed" /\ hd[h].cbErr = "ErrTooManyRequests"

Consumed(m) ==
    /\ m \in DOMAIN outcome
    /\ outcome[m] # "none" \/ \E w \in Workers : wk[w].m = m

\* C23: every message enqueued on orders is eventually handed to
\* processOrder, whether it was enqueued before or after the worker set up
\* its consumer.
C23_EveryMessageConsumed ==
    \A m \in 1..MaxOrders : (m <= Len(orders)) ~> Consumed(m)

\* ------------------------------------------------------- fail-open claims
\* C24: when the limiter's INCR fails (the key is left as it was) the
\* request is not answered 429: it goes on to validation, and from there to
\* the idempotency check if it is valid and to the 400 answer if it is not.
C24_FailedIncrLetsPass ==
    [][\A h \in Handlers :
         (hd[h].pc = "allow" /\ hd'[h].pc # "allow" /\ ratelimit' = ratelimit)
            => /\ hd'[h].pc # "remaining"
               /\ hist'.answered[hd[h].rid][429] = hist.answered[hd[h].rid][429]
               /\ IF ValidateOrderRequest(hd[h].order) = <<>>
                  THEN hd'[h].pc = "setnx"
                  ELSE hist'.answered[hd[h].rid][400] = hist.answered[hd[h].rid][400] + 1]_vars

\* A user's window is used up, and a further request of that user has passed
\* the limiter on a failed INCR and stands before the idempotency check.
C24_Witness ==
    \E user \in Users, h \in Handlers :
        /\ user \in DOMAIN ratelimit
        /\ verdicts[user].allowed = env.maxRequests
        /\ ratelimit[user].count = env.maxRequests
        /\ verdicts[user].failedOpen > 0
        /\ hd[h].user = user /\ hd[h].pc = "setnx"

\* ---------------------------------------------------------- health claims
\* C25: GET /health reports redis = true exactly when the ping succeeded and
\* kafka = true exactly when the breaker is not Open, and answers 200 when
\* both are true and 503 otherwise.
C25_HealthReflectsPingAndBreaker ==
    hist.health # <<>>
        => /\ hist.health.redis <=> hist.health.ping
           /\ hist.health.kafka <=> hist.health.state # "StateOpen"
           /\ hist.health.status = IF hist.health.redis /\ hist.health.kafka THEN 200 ELSE 503

\* ----------------------------------------------------------- gauge claims
\* C26: the circuit-breaker gauge reads 0 while the breaker is Closed, 1
\* while it is Open and 2 while it is HalfOpen.
C26_GaugeTracksBreaker ==
    cbGauge = CASE currentState(cb).state = "StateClosed" -> 0
                [] currentState(cb).state = "StateOpen" -> 1
                [] currentState(cb).state = "StateHalfOpen" -> 2

\* ------------------------------------------------------ validation claims
\* The number of characters of a string.
Characters(s) == s.ascii + s.other + s.space + s.wide

\* The rules C27 states for an identifier and for the request id.
IdentifierOk(s, maxLength) ==
    /\ Characters(s) >= 1 /\ Characters(s) <= maxLength
    /\ s.other = 0 /\ s.space = 0 /\ s.wide = 0

RequestIDOk(s) ==
    /\ Characters(s) >= 1 /\ Characters(s) <= maxRequestIDLength
    /\ s.ascii + s.other + s.wide >= 1

OrderOk(order) ==
    /\ IdentifierOk(order.UserID, maxUserIDLength)
    /\ IdentifierOk(order.ItemID, maxItemIDLength)
    /\ order.Amount >= minAmount /\ order.Amount <= maxAmount
    /\ RequestIDOk(order.RequestID)

\* C27: ValidateOrderRequest returns no error exactly when user_id and
\* item_id are non-empty, at most 100 characters and made of [A-Za-z0-9_-],
\* amount is in 1..1000, and request_id is non-empty, at most 200 characters
\* and not white space only; otherwise it returns at most one error per
\* field, and the request is answered 400 without an idempotency key being
\* created.
C27_ValidationRules ==
    /\ [](\A h \in Handlers :
            hd[h].pc # "idle"
               => LET errors == ValidateOrderRequest(hd[h].order)
                  IN  /\ errors = <<>> <=> OrderOk(hd[h].order)
                      /\ \A i, j \in DOMAIN errors :
                            errors[i].Field = errors[j].Field => i = j)
    /\ [][\A h \in Handlers :
            (/\ hd[h].pc # "idle" /\ hd'[h].pc # hd[h].pc
             /\ ValidateOrderRequest(hd[h].order) # <<>>)
                => /\ idem' = idem
                   /\ hd'[h].pc \in {"expire", "idle"}
                   /\ hd'[h].pc = "idle"
                        => hist'.answered[hd[h].rid][400] = hist.answered[hd[h].rid][400] + 1]_vars

\* -------------------------------------------------------- shutdown claims
\* A step of processOrder that uses the store client or the DLQ producer.
UsesClients ==
    \/ inventory' # inventory
    \/ dlqMetrics' # dlqMetrics
    \/ wk[Loop].pc \in {"reserve", "refund"} /\ wk'[Loop] # wk[Loop]

C29_OneDecrementPerRequest ==
    \A rid \in RequestIDs :
        Cardinality({m \in Bearing(rid) : outcome[m] = "order_processed_success"}) <= 1

\* ---------------------------------------------------------- status claims
\* C30: when a message of a request is on orders, and so whenever the request
\* is answered 202, order_status:<request_id> exists, also when the write
\* of the PROCESSING status failed.
C30_StatusBeforeMessage ==
    \A rid \in RequestIDs :
        (Published(rid) # {} \/ hist.answered[rid][202] > 0) => rid \in DOMAIN orderStatus

\* ----------------------------------------------------- correlation claims
\* C31: the correlation id of a 202 answer is the correlation_id header of
\* the message published for that request, and every record on orders-dlq
\* carries the correlation_id header and the payload of the message of
\* orders it was made from.
C31_CorrelationPreserved ==
    /\ \A a \in hist.accepted :
          \E m \in Published(a.rid) : orders[m].corr = a.corr
    /\ \A d \in 1..Len(ordersDlq) :
          \E m \in 1..offset :
             /\ ordersDlq[d].value = orders[m]
             /\ ordersDlq[d].correlation_id = orders[m].corr

\* Two requests were answered 202 with different correlation ids and the
\* message of one of them was dead-lettered.
C31_Witness ==
    /\ \E a, b \in hist.accepted : a.corr # b.corr
    /\ Len(ordersDlq) >= 1

\* ---------------------------------------------------------- backoff claims
\* C32: the time an Open breaker waits before it admits a probe is the
\* value GetTimeout computes from the consecutive producer failures,
\* base_timeout * 2^min(failures, 10) capped at max_timeout.
C32_OpenTimeIsBackoff ==
    cb.state = "StateOpen" => cb.wait = GetTimeout(failureCount)

\* ------------------------------------------------------ parse-failure claims
\* In this step a message whose payload does not parse is taken from orders.
TakesUnparsable ==
    /\ offset' = offset + 1
    /\ ~orders[offset + 1].parses

\* C33: a message whose payload does not parse is handed to moveToDLQ with
\* reason Invalid Order Format (the failure is counted under that reason and
\* the record published is the message with that reason) and no script is
\* run for it: the inventory is left as it is and the message never comes
\* to the reserve or the refund step.
C33_ParseFailureDeadLetters ==
    /\ [][TakesUnparsable
            => /\ inventory' = inventory
               /\ wk' = wk
               /\ outcome'[offset + 1] = "order_unmarshal_failed"
               /\ dlqMetrics' = RecordFailure(dlqMetrics, "Invalid Order Format")
               /\ \/ ordersDlq' = ordersDlq
                  \/ /\ Len(ordersDlq') = Len(ordersDlq) + 1
                     /\ ordersDlq'[Len(ordersDlq')].value = orders[offset + 1]
                     /\ ordersDlq'[Len(ordersDlq')].error = "Invalid Order Format"]_vars
    /\ [](\A w \in Workers : wk[w].pc # "idle" => orders[wk[w].m].parses)

\* A message that does not parse is on orders-dlq with reason Invalid Order
\* Format, and the stock of its item, which was there to reserve, is untouched.
C33_Witness ==
    /\ \E d \in DeadLettered("Invalid Order Format") : ~ordersDlq[d].value.parses
    /\ \E item \in DOMAIN inventory : inventory[item] >= 1
    /\ inventory = initialStock
    /\ Len(orders) = 1

\* ---------------------------------------------------------- refund claims
\* C34: the inventory of an item never exceeds its seeded value and no key
\* is created; the inventory grows only by the refund of one unit, run by a
\* worker for the message whose reserve succeeded and whose payment failed,
\* and that worker is done with the message afterwards; a message comes to
\* the refund only from its own payment, and to the payment only by a
\* reserve run that took one unit.
C34_RefundOnlyAfterReserve ==
    /\ [](/\ DOMAIN inventory = DOMAIN initialStock
          /\ \A item \in DOMAIN inventory : inventory[item] <= initialStock[item])
    /\ [][\A item \in DOMAIN inventory :
            inventory'[item] > inventory[item]
               => /\ inventory'[item] = inventory[item] + 1
                  /\ \E w \in Workers :
                        /\ wk[w].pc = "refund" /\ wk'[w] = Idle
                        /\ orders[wk[w].m].item = item]_vars
    /\ [][\A w \in Workers :
            /\ (wk'[w].pc = "refund" /\ wk[w].pc # "refund")
                  => wk[w].pc = "payment" /\ wk'[w].m = wk[w].m
            /\ (wk'[w].pc = "payment" /\ wk[w].pc # "payment")
                  => /\ wk[w].pc = "reserve" /\ wk'[w].m = wk[w].m
                     /\ inventory'[orders[wk[w].m].item]
                           = inventory[orders[wk[w].m].item] - 1]_vars

\* Two orders for an item had their payment fail and both refunds were
\* applied: the inventory is back at its seeded value.
C34_Witness ==
    \E item \in DOMAIN inventory :
        /\ initialStock[item] >= 1
        /\ Cardinality(Ended(item, "payment_timeout")) >= 2
        /\ inventory[item] = initialStock[item]
        /\ Quiescent

\* -------------------------------------------------------- rollback claims
\* C35: a rollback removes only the idempotency key that the same request
\* created, never a key that another request with the same request id
\* created after the first key had expired.  (A rollback is a step in which
\* a handler answers and the idempotency key of its request id goes away.)
C35_RollbackRemovesOwnKey ==
    [][\A h \in Handlers :
          (/\ hd[h].pc \in {"failed", "precheck"} /\ hd'[h].pc = "idle"
           /\ hd[h].rid \in idem /\ hd[h].rid \notin idem')
              => hd[h].owns]_vars

\* C36: when order_status:<request_id> is PROCESSING and no /buy of that
\* request id is in progress, a message of that request id was put on orders;
\* a rolled-back admission leaves no PROCESSING status behind.
C36_ProcessingMeansEnqueued ==
    \A rid \in RequestIDs :
        (/\ rid \in DOMAIN orderStatus
         /\ orderStatus[rid] = "PROCESSING"
         /\ InFlight(rid) = {}) => Published(rid) # {}

\* -------------------------------------------------- rate-limit key claims
\* C37: every ratelimit:<user_id> key that exists has an expiry set once the
\* request that created it is past its EXPIRE call, also when that call
\* failed; so the key goes away and a limited user is allowed again.
C37_EveryKeyHasExpiry ==
    \A user \in DOMAIN ratelimit :
        \/ ratelimit[user].ttl
        \/ \E h \in Handlers : hd[h].pc = "expire" /\ hd[h].user = user

\* ---------------------------------------------------- DLQ metrics runs
\* Metrics runs: NumCallers goroutines, each making up to MaxCalls calls of
\* RecordFailure, GetDLQMetrics and ResetDLQMetrics in any order.
InitCalls == InitGateway /\ InitProcessor /\ env = NoRequests

NextCalls ==
    \E c \in Callers :
        \/ Call(c) \/ Lock(c) \/ RLock(c) \/ WriteTotal(c) \/ WriteReasons(c)
        \/ Unlock(c) \/ CopyReasons(c) \/ Return(c)

SpecCalls == InitCalls /\ [][NextCalls]_vars

\* ---------------------------------------------------- DLQ metrics claims
\* C38: the number of failures RecordFailure has recorded is the number of
\* records on orders-dlq; a failed dead-letter publish is not counted.
C38_FailuresAreDlqRecords ==
    dlqMetrics.totalFailures = Len(ordersDlq)

\* The sum of a failuresByReason map over all reasons.
RECURSIVE SumOver(_, _)
SumOver(m, reasons) ==
    IF reasons = {} THEN 0
    ELSE LET r == CHOOSE x \in reasons : TRUE
         IN  m[r] + SumOver(m, reasons \ {r})

\* C39: whenever no RecordFailure or ResetDLQMetrics call is inside its lock
\* section, totalFailures is the sum of failuresByReason over all reasons;
\* what GetDLQMetrics returns is a snapshot, its total being the sum of its
\* map, and no later call changes the map a goroutine was returned.
C39_TotalIsSumAndSnapshot ==
    /\ [](mu.writer = 0 =>
              dlqMetrics.totalFailures = SumOver(dlqMetrics.failuresByReason, Reasons))
    /\ [](\A c \in Callers :
              callers[c].returned =>
                  callers[c].totalFailures = SumOver(MapOf(callers[c].failuresByReason), Reasons))
    /\ [][\A c \in Callers :
              (callers[c].returned /\ callers'[c].returned)
                  => MapOf(callers[c].failuresByReason)' = MapOf(callers[c].failuresByReason)]_vars

\* A goroutine holds a map returned by GetDLQMetrics with a failure in it,
\* failures were recorded since, and another RecordFailure waits for the
\* lock that a reader holds.
C39_Witness ==
    \E c \in Callers, d \in Callers, e \in Callers :
        /\ callers[c].returned
        /\ callers[c].totalFailures > 0
        /\ dlqMetrics.totalFailures > callers[c].totalFailures
        /\ d \in mu.readers
        /\ callers[e].pc = "lock" /\ callers[e].op = "RecordFailure"

====
